---- MODULE Spec2Model ----
(***************************************************************************)
(* The socket-reuse engine of the QUIC transport: reference-counted UDP    *)
(* sockets (reuseConn), the per-family pool (reuse) with its Listen and    *)
(* Dial operations, and the background garbage collector.                  *)
(*                                                                         *)
(* Time is a discrete clock.  The pool mutex is modelled explicitly: Dial   *)
(* holds it over three steps (dialLocked, IncreaseCount, return), while    *)
(* DecreaseCount, which takes only the socket's mutex, can run in between. *)
(* The per-socket mutex makes IncreaseCount, DecreaseCount and             *)
(* ShouldGarbageCollect atomic, so each is one evaluation.  A pass of the  *)
(* collector runs under the pool mutex and is one step: a DecreaseCount    *)
(* during the pass stamps a time no earlier than the tick, so the pass     *)
(* does not reap that socket whichever comes first.                        *)
(* The collector that cleared garbageCollectorRunning is a goroutine of    *)
(* its own until it has returned; a new one may be started meanwhile.      *)
(*                                                                         *)
(* The second part is the transport over such a pool: transport.Dial with  *)
(* its session watcher, the hole-punch coordinator with its table and the  *)
(* accept path that delivers into it, and connManager.Close.  Spec is the  *)
(* pool alone; TransportSpec is the transport over a pool that tracks the  *)
(* socket of one listener, HolePunchSpec and DialSpec are its two halves.  *)
(***************************************************************************)
EXTENDS Integers, Sequences, FiniteSets, TLC

\* ---------------------------------------------------------------- bounds
MaxTime == 3            \* the clock runs over 1..MaxTime
MaxConns == 2           \* sockets ever bound during one run
MaxCount == 2           \* references handed out on one socket at a time

Ports == {1, 2}         \* local UDP ports the kernel can hand out
IPs == {"ip1", "ip2"}   \* unicast local addresses
Unspecified == "0.0.0.0"
UnusedDurations == {0, 1}   \* values given to maxUnusedDuration
\* results of the kernel route query, in resolver order
SourceIPLists == {<< >>, <<"ip2">>, <<"ip1", "ip2">>}

Zero == 0               \* time.Time{}: the unset timestamp
NoConn == 0

Callers == {"a", "b"}               \* goroutines calling transport.Dial
HolePunchKeys == {"k1", "k2"}       \* holePunchKey{addr, peer}
\* the inbound session the listener accepts from the address and peer of a key
sessionFrom == [k \in HolePunchKeys |-> IF k = "k1" THEN "s1" ELSE "s2"]
Sessions == {sessionFrom[k] : k \in HolePunchKeys}
Networks == {"udp6", "udp4"}
SleepTicks == {1, 2}                \* the randomised sleep d, in clock ticks
NoSess == "none"
NoCode == -1                        \* CloseWithError not called
errorCodeConnectionGating == 1195461701     \* 0x47415445, GATE in ASCII
HolePunchTimeouts == {1, 2}         \* values given to HolePunchTimeout, in ticks

VARIABLES
    clock,                      \* time.Now()
    maxUnusedDuration,          \* package variable
    conns,                      \* every reuseConn created so far, by identity
    global,                     \* reuse.global: port -> conn
    unicast,                    \* reuse.unicast: ip -> (port -> conn)
    garbageCollectorRunning,    \* reuse.garbageCollectorRunning
    mutex,                      \* reuse.mutex is held
    gcPc,                       \* the collector: "none", "wait", "tick"
    gcNow,                      \* the tick value the collector received
    gcLooping,                  \* goroutines inside the loop of runGarbageCollector
    gcExiting,                  \* goroutines past their last Unlock, not yet returned
    pc,                         \* the Dial in its critical section, or "idle"
    callIps,                    \* Dial: ips returned by getSourceIPs
    callConn,                   \* Dial: conn returned by dialLocked
    before,                     \* refCount of that socket when the call began
    decd,                       \* a holder decreased that socket during the call
    held,                       \* references handed out and not yet released
    HolePunchTimeout,           \* package variable
    holePunching,               \* transport.holePunching: key -> activeHolePunch
    calls,                      \* the transport.Dial calls in progress, by caller
    closeCalled,                \* the pools reuse.Close was called on
    closeRet                    \* what connManager.Close returned

vars == <<clock, maxUnusedDuration, conns, global, unicast,
          garbageCollectorRunning, mutex, gcPc, gcNow, gcLooping, gcExiting,
          pc, callIps, callConn, before, decd, held,
          HolePunchTimeout, holePunching, calls, closeCalled, closeRet>>

poolVars == <<global, unicast, garbageCollectorRunning, mutex>>
gcVars == <<gcPc, gcNow>>
gcTasks == <<gcLooping, gcExiting>>
callVars == <<pc, callIps, callConn, before, decd>>
transportVars == <<HolePunchTimeout, holePunching, calls, closeCalled, closeRet>>

ConnIds == 1..MaxConns

\* ------------------------------------------------------------ Go maps
EmptyMap == [k \in {} |-> NoConn]
MapPut(m, k, v) == [x \in (DOMAIN m) \cup {k} |-> IF x = k THEN v ELSE m[x]]
MapDel(m, ks) == [x \in (DOMAIN m) \ ks |-> m[x]]
MapValues(m) == {m[k] : k \in DOMAIN m}

\* ------------------------------------------------------------ reuseConn
newReuseConn(ip, port) ==
    [ip |-> ip, port |-> port, refCount |-> 0, unusedSince |-> Zero,
     closed |-> FALSE]

\* faulty variant of IncreaseCount: the idle timestamp left as it was
IncreaseCountKeepsStamp(c) == [c EXCEPT !.refCount = @ + 1]

\* faulty variant of IncreaseCount: the increment forgotten
IncreaseCountNoIncrement(c) == [c EXCEPT !.unusedSince = Zero]

IncreaseCount(c) ==
    [c EXCEPT !.refCount = @ + 1, !.unusedSince = Zero]

\* faulty variant of DecreaseCount: the timestamp never taken
DecreaseCountNoStamp(c, now) == [c EXCEPT !.refCount = @ - 1]

DecreaseCount(c, now) ==
    [c EXCEPT !.refCount = @ - 1,
              !.unusedSince = IF c.refCount - 1 = 0 THEN now ELSE @]

\* faulty variants of ShouldGarbageCollect: the IsZero test dropped; the
\* boundary instant included; the comparison one unit late
ShouldGarbageCollectNoZeroTest(c, now) ==
    c.unusedSince + maxUnusedDuration < now

ShouldGarbageCollectInclusive(c, now) ==
    c.unusedSince # Zero /\ c.unusedSince + maxUnusedDuration <= now

ShouldGarbageCollectLate(c, now) ==
    c.unusedSince # Zero /\ c.unusedSince + maxUnusedDuration + 1 < now

\* !unusedSince.IsZero() && unusedSince.Add(maxUnusedDuration).Before(now)
ShouldGarbageCollect(c, now) ==
    c.unusedSince # Zero /\ c.unusedSince + maxUnusedDuration < now

\* ------------------------------------------------------------ the kernel
IsUnspecified(ip) == ip = Unspecified

\* net.ListenUDP succeeds only on an address no open socket is bound to
BindOK(ip, port) ==
    \A i \in DOMAIN conns :
        conns[i].closed \/ conns[i].port # port
        \/ (conns[i].ip # ip /\ ~IsUnspecified(ip) /\ ~IsUnspecified(conns[i].ip))

\* ------------------------------------------------------------ registry
Registered == MapValues(global) \cup
              UNION {MapValues(unicast[u]) : u \in DOMAIN unicast}

\* a goroutine that is not inside transport.Dial
idleCall ==
    [pc |-> "idle", key |-> "none", pconn |-> NoConn, deadline |-> 0,
     cancelled |-> FALSE, timer |-> 0, punchErr |-> "nil", sess |-> "none",
     closeCode |-> NoCode, watcher |-> "none", ret |-> NoSess, err |-> "nil",
     \* history: counts taken and given back, probes, entry, delivery
     acquired |-> 0, released |-> 0, sent |-> FALSE, inserted |-> FALSE,
     delivered |-> NoSess]

\* NewTransport: an empty hole-punch table, both pools open
transportInit ==
    /\ holePunching = EmptyMap
    /\ calls = [p \in Callers |-> idleCall]
    /\ closeCalled = [n \in Networks |-> "no"]
    /\ closeRet = "none"

Init ==
    /\ HolePunchTimeout = CHOOSE d \in HolePunchTimeouts :
                              \A e \in HolePunchTimeouts : e <= d
    /\ transportInit
    /\ clock = 1
    /\ maxUnusedDuration \in UnusedDurations
    /\ conns = << >>
    /\ global = EmptyMap
    /\ unicast = EmptyMap
    /\ garbageCollectorRunning = FALSE
    /\ mutex = FALSE
    /\ gcPc = "none"
    /\ gcNow = Zero
    /\ gcLooping = 0
    /\ gcExiting = 0
    /\ pc = "idle"
    /\ callIps = << >>
    /\ callConn = NoConn
    /\ before = 0
    /\ decd = FALSE
    /\ held = [i \in ConnIds |-> 0]

\* ------------------------------------------------------------ time
AdvanceClock ==
    /\ clock < MaxTime
    /\ clock' = clock + 1
    /\ UNCHANGED <<maxUnusedDuration, conns, poolVars, gcVars, gcTasks, callVars, held>>
    /\ UNCHANGED transportVars

\* the package variable is reassigned (the test suites do so)
SetMaxUnusedDuration ==
    /\ \E d \in UnusedDurations \ {maxUnusedDuration} : maxUnusedDuration' = d
    /\ UNCHANGED <<clock, conns, poolVars, gcVars, gcTasks, callVars, held>>
    /\ UNCHANGED transportVars

\* ------------------------------------------------------------ collector
\* faulty variant of maybeStartGarbageCollector: the flag is not tested
maybeStartGarbageCollectorAlways ==
    /\ garbageCollectorRunning' = TRUE
    /\ gcPc' = "wait"
    /\ gcLooping' = gcLooping + 1

\* must be called while holding the mutex
maybeStartGarbageCollector ==
    IF ~garbageCollectorRunning
    THEN /\ garbageCollectorRunning' = TRUE
         /\ gcPc' = "wait"
         /\ gcLooping' = gcLooping + 1
    ELSE UNCHANGED <<garbageCollectorRunning, gcPc, gcLooping>>

\* for now := range ticker.C
GCTick ==
    /\ gcPc = "wait"
    /\ gcPc' = "tick"
    /\ gcNow' = clock
    /\ UNCHANGED gcTasks
    /\ UNCHANGED <<clock, maxUnusedDuration, conns, poolVars, callVars, held>>
    /\ UNCHANGED transportVars

\* faulty variant of gcCanLock: the pass runs without the pool mutex
gcCanLockAlways == TRUE

\* r.mutex.Lock() of the collector
gcCanLock == ~mutex

gcGlobalKeys(now) ==
    {k \in DOMAIN global : ShouldGarbageCollect(conns[global[k]], now)}

gcUnicastKeys(u, now) ==
    {k \in DOMAIN unicast[u] : ShouldGarbageCollect(conns[unicast[u][k]], now)}

gcGlobal(now) == MapDel(global, gcGlobalKeys(now))

\* faulty variant of gcUnicast: emptied inner maps are left in place
gcUnicastKeepsEmpty(now) ==
    [u \in DOMAIN unicast |-> MapDel(unicast[u], gcUnicastKeys(u, now))]

gcUnicast(now) ==
    [u \in {v \in DOMAIN unicast : (DOMAIN unicast[v]) \ gcUnicastKeys(v, now) # {}}
        |-> MapDel(unicast[u], gcUnicastKeys(u, now))]

gcClosed(now) ==
    {global[k] : k \in gcGlobalKeys(now)} \cup
    UNION {{unicast[u][k] : k \in gcUnicastKeys(u, now)} : u \in DOMAIN unicast}

\* faulty variant of gcShouldExit: unicast not looked at
gcShouldExitGlobalOnly(g, u) == DOMAIN g = {}

\* stop the garbage collector if we're not tracking any connections
gcShouldExit(g, u) == DOMAIN g = {} /\ DOMAIN u = {}

\* conn.Close().  A closed socket that neither a holder nor a call in
\* progress references is unreachable: all such objects are one value.
Close(i) ==
    IF held[i] = 0 /\ conns[i].refCount = 0 /\ callConn # i
    THEN [ip |-> Unspecified, port |-> 0, refCount |-> 0, unusedSince |-> Zero,
          closed |-> TRUE]
    ELSE [conns[i] EXCEPT !.closed = TRUE]

\* one pass of the loop body, from Lock to Unlock
GCRun ==
    /\ gcPc = "tick"
    /\ gcCanLock
    /\ conns' = [i \in DOMAIN conns |->
                    IF i \in gcClosed(gcNow) THEN Close(i) ELSE conns[i]]
    /\ global' = gcGlobal(gcNow)
    /\ unicast' = gcUnicast(gcNow)
    /\ IF gcShouldExit(global', unicast')
       THEN /\ garbageCollectorRunning' = FALSE
            /\ gcPc' = "none"
            /\ gcLooping' = gcLooping - 1
            /\ gcExiting' = gcExiting + 1
       ELSE /\ gcPc' = "wait"
            /\ UNCHANGED <<garbageCollectorRunning, gcTasks>>
    /\ gcNow' = Zero
    /\ UNCHANGED <<clock, maxUnusedDuration, mutex, callVars, held>>
    /\ UNCHANGED transportVars

\* if shouldExit { return }: the goroutine that cleared the flag ends
GCExit ==
    /\ gcExiting > 0
    /\ gcExiting' = gcExiting - 1
    /\ UNCHANGED <<clock, maxUnusedDuration, conns, poolVars, gcVars, gcLooping,
                   callVars, held>>
    /\ UNCHANGED transportVars

\* ------------------------------------------------------------ Listen
\* faulty variant of listenGlobal: the IsUnspecified test dropped
listenGlobalAlways(id, ip, port) == MapPut(global, port, id)

\* the index a socket bound to ip goes to
listenGlobal(id, ip, port) ==
    IF IsUnspecified(ip) THEN MapPut(global, port, id) ELSE global

listenUnicast(id, ip, port) ==
    IF IsUnspecified(ip)
    THEN unicast
    ELSE MapPut(unicast, ip,
                MapPut(IF ip \in DOMAIN unicast THEN unicast[ip] ELSE EmptyMap,
                       port, id))

\* A successful Listen.  net.ListenUDP, newReuseConn and IncreaseCount run
\* before the lock on a socket no other goroutine can reach, so they commute
\* with every other step up to the critical section and are taken with it.
Listen(ip, port) ==
    /\ Len(conns) < MaxConns
    /\ BindOK(ip, port)
    /\ ~mutex
    /\ conns' = Append(conns, IncreaseCount(newReuseConn(ip, port)))
    /\ maybeStartGarbageCollector
    /\ global' = listenGlobal(Len(conns) + 1, ip, port)
    /\ unicast' = listenUnicast(Len(conns) + 1, ip, port)
    /\ held' = [held EXCEPT ![Len(conns) + 1] = @ + 1]
    /\ UNCHANGED <<clock, maxUnusedDuration, mutex, gcNow, gcExiting, callVars>>
    /\ UNCHANGED transportVars

\* ------------------------------------------------------------ Dial
\* for _, ip := range ips: the sockets of the first ip that has some
RECURSIVE dialUnicast(_, _)
dialUnicast(ips, i) ==
    IF i > Len(ips) THEN {}
    ELSE IF ips[i] \in DOMAIN unicast /\ DOMAIN unicast[ips[i]] # {}
         THEN MapValues(unicast[ips[i]])
         ELSE dialUnicast(ips, i + 1)

\* faulty variants of dialExisting: global never consulted; global first
dialExistingUnicastOnly(ips) == dialUnicast(ips, 1)

dialExistingGlobalFirst(ips) ==
    IF MapValues(global) # {} THEN MapValues(global) ELSE dialUnicast(ips, 1)

\* the sockets dialLocked may return without binding a new one
dialExisting(ips) ==
    IF dialUnicast(ips, 1) # {} THEN dialUnicast(ips, 1) ELSE MapValues(global)

\* getSourceIPs; r.mutex.Lock(); dialLocked returns a tracked socket.
\* getSourceIPs touches no shared state, so it is taken with the Lock.
DialLockedReuse(ips) ==
    /\ pc = "idle"
    /\ ~mutex
    /\ \E c \in dialExisting(ips) :
          /\ conns[c].refCount < MaxCount
          /\ callConn' = c
          /\ before' = conns[c].refCount
    /\ callIps' = ips
    /\ mutex' = TRUE
    /\ pc' = "dialSelected"
    /\ UNCHANGED <<clock, maxUnusedDuration, conns, global, unicast,
                   garbageCollectorRunning, gcVars, gcTasks, decd, held>>
    /\ UNCHANGED transportVars

\* getSourceIPs; r.mutex.Lock(); dialLocked binds a new wildcard socket
DialLockedBind(ips) ==
    /\ pc = "idle"
    /\ ~mutex
    /\ dialExisting(ips) = {}
    /\ Len(conns) < MaxConns
    /\ \E port \in Ports :
          /\ BindOK(Unspecified, port)
          /\ conns' = Append(conns, newReuseConn(Unspecified, port))
          /\ global' = MapPut(global, port, Len(conns) + 1)
    /\ callConn' = Len(conns) + 1
    /\ before' = 0
    /\ callIps' = ips
    /\ mutex' = TRUE
    /\ pc' = "dialSelected"
    /\ UNCHANGED <<clock, maxUnusedDuration, unicast, garbageCollectorRunning,
                   gcVars, gcTasks, decd, held>>
    /\ UNCHANGED transportVars

\* conn.IncreaseCount()
DialIncrease ==
    /\ pc = "dialSelected"
    /\ conns' = [conns EXCEPT ![callConn] = IncreaseCount(@)]
    /\ pc' = "dialIncreased"
    /\ UNCHANGED <<clock, maxUnusedDuration, poolVars, gcVars, gcTasks, callIps, callConn,
                   before, decd, held>>
    /\ UNCHANGED transportVars

\* r.maybeStartGarbageCollector(); return conn (the deferred Unlock runs)
DialReturn ==
    /\ pc = "dialIncreased"
    /\ maybeStartGarbageCollector
    /\ mutex' = FALSE
    /\ held' = [held EXCEPT ![callConn] = @ + 1]
    /\ pc' = "idle"
    /\ callIps' = << >>
    /\ callConn' = NoConn
    /\ before' = 0
    /\ decd' = FALSE
    /\ UNCHANGED <<clock, maxUnusedDuration, conns, global, unicast, gcNow,
                   gcExiting>>
    /\ UNCHANGED transportVars

\* ------------------------------------------------------------ holders
\* a holder releases one reference it was handed: pconn.DecreaseCount()
Release(c) ==
    /\ held[c] > 0
    /\ conns' = [conns EXCEPT ![c] = DecreaseCount(@, clock)]
    /\ held' = [held EXCEPT ![c] = @ - 1]
    /\ decd' = (decd \/ (pc # "idle" /\ callConn = c))
    /\ UNCHANGED <<clock, maxUnusedDuration, poolVars, gcVars, gcTasks, pc, callIps,
                   callConn, before>>
    /\ UNCHANGED transportVars

Next ==
    \/ AdvanceClock
    \/ SetMaxUnusedDuration
    \/ GCTick
    \/ GCRun
    \/ GCExit
    \/ \E ip \in IPs \cup {Unspecified}, port \in Ports : Listen(ip, port)
    \/ \E ips \in SourceIPLists : DialLockedReuse(ips)
    \/ \E ips \in SourceIPLists : DialLockedBind(ips)
    \/ DialIncrease
    \/ DialReturn
    \/ \E c \in ConnIds : Release(c)

Spec == Init /\ [][Next]_vars

\* Time passes, the ticker keeps firing, and the Go scheduler lets a runnable
\* goroutine run: the collector takes the free mutex, a Dial inside its
\* critical section finishes it.
FairSpec ==
    /\ Spec
    /\ WF_vars(AdvanceClock)
    /\ WF_vars(GCTick)
    /\ WF_vars(GCRun)
    /\ WF_vars(GCExit)
    /\ WF_vars(DialIncrease)
    /\ WF_vars(DialReturn)

\* ================================================================ transport
\* transport.Dial, transport.holePunch and connManager.Close, over a pool
\* that tracks the socket of one listener.  Each caller is a goroutine; a
\* step ends where the code blocks or takes a lock.

\* pconn.DecreaseCount(): faulty variant, the release forgotten
pconnDecreaseCountSkipped(c) == conns

\* pconn.DecreaseCount()
pconnDecreaseCount(c) == [conns EXCEPT ![c] = DecreaseCount(@, clock)]

\* the call of caller p ends: its locals are gone, the results stay
returned(r, ret, err) ==
    [r EXCEPT !.pc = "done", !.ret = ret, !.err = err, !.deadline = 0,
              !.cancelled = FALSE, !.timer = 0]

\* a listener has bound the wildcard address: the pool after reuse.Listen
TransportInit ==
    /\ HolePunchTimeout \in HolePunchTimeouts
    /\ transportInit
    /\ clock = 1
    /\ maxUnusedDuration = 1
    /\ conns = <<IncreaseCount(newReuseConn(Unspecified, 1))>>
    /\ global = MapPut(EmptyMap, 1, 1)
    /\ unicast = EmptyMap
    /\ garbageCollectorRunning = TRUE
    /\ mutex = FALSE
    /\ gcPc = "wait"
    /\ gcNow = Zero
    /\ gcLooping = 1
    /\ gcExiting = 0
    /\ pc = "idle"
    /\ callIps = << >>
    /\ callConn = NoConn
    /\ before = 0
    /\ decd = FALSE
    /\ held = [i \in ConnIds |-> IF i = 1 THEN 1 ELSE 0]

\* what every step of the transport leaves alone in the pool
poolKept == <<maxUnusedDuration, global, unicast, garbageCollectorRunning,
              mutex, gcVars, gcTasks, callVars, held, HolePunchTimeout>>

\* manet.DialArgs, net.ResolveUDPAddr, toQuicMultiaddr or connManager.Dial
\* fails: nothing was acquired
DialFail(p) ==
    /\ calls[p].pc = "idle"
    /\ calls' = [calls EXCEPT ![p] = returned(@, NoSess, "dial")]
    /\ UNCHANGED <<clock, conns, poolKept, holePunching, closeCalled, closeRet>>

\* pconn, err := t.connManager.Dial(network, addr): reuse.Dial hands out a
\* tracked socket with its count raised by one
connManagerDial(c) ==
    /\ c \in dialExisting(<< >>)
    /\ conns' = [conns EXCEPT ![c] = IncreaseCount(@)]

\* transport.Dial up to the handshake
TransportDial(p) ==
    /\ calls[p].pc = "idle"
    /\ \E c \in DOMAIN conns :
          /\ connManagerDial(c)
          /\ calls' = [calls EXCEPT ![p] =
                          [@ EXCEPT !.pc = "handshake", !.pconn = c,
                                    !.acquired = @ + 1]]
    /\ UNCHANGED <<clock, poolKept, holePunching, closeCalled, closeRet>>

\* faulty variant of handshakeFailed: the socket is not released
handshakeFailedNoRelease(p) ==
    /\ UNCHANGED conns
    /\ calls' = [calls EXCEPT ![p] = returned(@, NoSess, "handshake")]

\* quicDialContext returns an error
handshakeFailed(p) ==
    /\ conns' = pconnDecreaseCount(calls[p].pconn)
    /\ calls' = [calls EXCEPT ![p] =
                    returned([@ EXCEPT !.released = @ + 1], NoSess, "handshake")]

\* the handshake succeeded and keyCh is empty at the non-blocking read
remotePubKeyMissing(p) ==
    /\ conns' = pconnDecreaseCount(calls[p].pconn)
    /\ calls' = [calls EXCEPT ![p] =
                    returned([@ EXCEPT !.sess = "open", !.released = @ + 1],
                             NoSess, "nokey")]

\* the handshake succeeded, the key is there: go func() { <-Done; Decrease }
watcherSpawned(p) ==
    /\ UNCHANGED conns
    /\ calls' = [calls EXCEPT ![p] =
                    [@ EXCEPT !.pc = "secured", !.sess = "open",
                              !.watcher = "waiting"]]

\* quicDialContext returns; the identity channel is read without blocking
Handshake(p) ==
    /\ calls[p].pc = "handshake"
    /\ \/ handshakeFailed(p)
       \/ remotePubKeyMissing(p)
       \/ watcherSpawned(p)
    /\ UNCHANGED <<clock, poolKept, holePunching, closeCalled, closeRet>>

\* faulty variant of gated: the session is closed with code 0
gatedCodeZero(r) ==
    returned([r EXCEPT !.sess = "closed", !.closeCode = 0], NoSess, "gated")

\* sess.CloseWithError(errorCodeConnectionGating, "connection gated")
gated(r) ==
    returned([r EXCEPT !.sess = "closed",
                       !.closeCode = errorCodeConnectionGating],
             NoSess, "gated")

\* toQuicMultiaddr(pconn.LocalAddr()), the gater, return conn
Secure(p) ==
    /\ calls[p].pc = "secured"
    /\ \E laddrOk, admit \in BOOLEAN :
          calls' = [calls EXCEPT ![p] =
              IF ~laddrOk
              THEN returned([@ EXCEPT !.sess = "closed", !.closeCode = 0],
                            NoSess, "laddr")
              ELSE IF ~admit
              THEN gated(@)
              ELSE returned(@, "conn", "nil")]
    /\ UNCHANGED <<clock, conns, poolKept, holePunching, closeCalled, closeRet>>

\* the peer closes the session or it times out: sess.Context() is done
SessionTerminates(p) ==
    /\ calls[p].sess = "open"
    /\ calls' = [calls EXCEPT ![p].sess = "closed"]
    /\ UNCHANGED <<clock, conns, poolKept, holePunching, closeCalled, closeRet>>

\* <-sess.Context().Done(); pconn.DecreaseCount()
Watcher(p) ==
    /\ calls[p].watcher = "waiting"
    /\ calls[p].sess = "closed"
    /\ conns' = pconnDecreaseCount(calls[p].pconn)
    /\ calls' = [calls EXCEPT ![p].watcher = "exited", ![p].released = @ + 1]
    /\ UNCHANGED <<clock, poolKept, holePunching, closeCalled, closeRet>>

\* the caller has its result and the connection is gone: it may call again
CallAgain(p) ==
    /\ calls[p].pc = "done"
    /\ calls[p].watcher # "waiting"
    /\ calls' = [calls EXCEPT ![p] = idleCall]
    /\ UNCHANGED <<clock, conns, poolKept, holePunching, closeCalled, closeRet>>

\* ------------------------------------------------------------ holePunch
\* connCh := make(chan tpt.CapableConn, 1); &activeHolePunch{connCh: connCh}
newActiveHolePunch == [connCh |-> NoSess, fulfilled |-> FALSE]

\* pconn, err := t.connManager.Dial; defer pconn.DecreaseCount();
\* ctx, cancel := context.WithTimeout(ctx, HolePunchTimeout).  A call whose
\* deadline the clock of the model cannot reach is not started.
HolePunchStart(p, k) ==
    /\ calls[p].pc = "idle"
    /\ clock + HolePunchTimeout <= MaxTime
    /\ \E c \in DOMAIN conns :
          /\ connManagerDial(c)
          /\ calls' = [calls EXCEPT ![p] =
                          [@ EXCEPT !.pc = "hpLock", !.pconn = c, !.key = k,
                                    !.deadline = clock + HolePunchTimeout,
                                    !.acquired = @ + 1]]
    /\ UNCHANGED <<clock, poolKept, holePunching, closeCalled, closeRet>>

\* faulty variant of holePunchInsert: the entry of the key is replaced
holePunchInsertOverwrites(p) ==
    /\ holePunching' = MapPut(holePunching, calls[p].key, newActiveHolePunch)
    /\ UNCHANGED conns
    /\ calls' = [calls EXCEPT ![p] = [@ EXCEPT !.pc = "hpSend", !.inserted = TRUE]]

\* t.holePunchingMx.Lock(); the key is looked up; the entry is inserted or
\* the call returns "already punching hole" (the deferred DecreaseCount runs)
holePunchInsert(p) ==
    IF calls[p].key \in DOMAIN holePunching
    THEN /\ UNCHANGED holePunching
         /\ conns' = pconnDecreaseCount(calls[p].pconn)
         /\ calls' = [calls EXCEPT ![p] =
                         returned([@ EXCEPT !.released = @ + 1], NoSess, "already")]
    ELSE /\ holePunching' = MapPut(holePunching, calls[p].key, newActiveHolePunch)
         /\ UNCHANGED conns
         /\ calls' = [calls EXCEPT ![p] =
                         [@ EXCEPT !.pc = "hpSend", !.inserted = TRUE]]

HolePunchLock(p) ==
    /\ calls[p].pc = "hpLock"
    /\ holePunchInsert(p)
    /\ UNCHANGED <<clock, poolKept, closeCalled, closeRet>>

\* rand.Read(payload); pconn.WriteTo(payload, addr); the timer is set
HolePunchSend(p) ==
    /\ calls[p].pc = "hpSend"
    /\ \/ \E d \in SleepTicks :
             calls' = [calls EXCEPT ![p] =
                          [@ EXCEPT !.pc = "hpSelect", !.sent = TRUE,
                                    !.timer = clock + d]]
       \/ calls' = [calls EXCEPT ![p] =
                       [@ EXCEPT !.pc = "hpExit", !.punchErr = "send",
                                 !.timer = 0]]
    /\ UNCHANGED <<clock, conns, poolKept, holePunching, closeCalled, closeRet>>

\* case c := <-connCh
HolePunchReceive(p) ==
    /\ calls[p].pc = "hpSelect"
    /\ holePunching[calls[p].key].connCh # NoSess
    /\ calls' = [calls EXCEPT ![p] =
                    [@ EXCEPT !.pc = "hpGot",
                              !.ret = holePunching[calls[p].key].connCh,
                              !.timer = 0, !.cancelled = FALSE, !.deadline = 0]]
    /\ holePunching' = [holePunching EXCEPT ![calls[p].key].connCh = NoSess]
    /\ UNCHANGED <<clock, conns, poolKept, closeCalled, closeRet>>

\* Lock(); delete(t.holePunching, key); Unlock(); return c, nil
HolePunchGot(p) ==
    /\ calls[p].pc = "hpGot"
    /\ holePunching' = MapDel(holePunching, {calls[p].key})
    /\ conns' = pconnDecreaseCount(calls[p].pconn)
    /\ calls' = [calls EXCEPT ![p] =
                    returned([@ EXCEPT !.released = @ + 1], calls[p].ret, "nil")]
    /\ UNCHANGED <<clock, poolKept, closeCalled, closeRet>>

\* case <-timer.C
HolePunchTimer(p) ==
    /\ calls[p].pc = "hpSelect"
    /\ clock >= calls[p].timer
    /\ calls' = [calls EXCEPT ![p] = [@ EXCEPT !.pc = "hpSend", !.timer = 0]]
    /\ UNCHANGED <<clock, conns, poolKept, holePunching, closeCalled, closeRet>>

\* faulty variant of ctxDone: the overall timeout is not applied
ctxDoneCancelOnly(r) == r.cancelled

\* ctx.Done() is closed: the caller cancelled or the deadline has passed
ctxDone(r) == r.cancelled \/ clock >= r.deadline

\* case <-ctx.Done(): punchErr = ErrHolePunching; break loop
HolePunchCtxDone(p) ==
    /\ calls[p].pc = "hpSelect"
    /\ ctxDone(calls[p])
    /\ calls' = [calls EXCEPT ![p] =
                    [@ EXCEPT !.pc = "hpExit", !.punchErr = "ErrHolePunching",
                              !.timer = 0]]
    /\ UNCHANGED <<clock, conns, poolKept, holePunching, closeCalled, closeRet>>

\* faulty variant of lastChance: the channel is not read on the way out
lastChanceNotRead(e, punchErr) == <<NoSess, punchErr>>

\* faulty variant of lastChance: the error of the send is lost
lastChanceErrHolePunching(e, punchErr) ==
    IF e.connCh # NoSess THEN <<e.connCh, "nil">>
    ELSE <<NoSess, "ErrHolePunching">>

\* select { case c := <-t.holePunching[key].connCh: return c, nil
\*          default: return nil, punchErr }
lastChance(e, punchErr) ==
    IF e.connCh # NoSess THEN <<e.connCh, "nil">> ELSE <<NoSess, punchErr>>

\* faulty variant of holePunchExit: the entry stays in the table
holePunchLeavesEntry(key) == holePunching

\* defer func() { delete(t.holePunching, key); t.holePunchingMx.Unlock() }()
holePunchDelete(key) == MapDel(holePunching, {key})

\* we only arrive here if punchErr != nil
HolePunchExit(p) ==
    /\ calls[p].pc = "hpExit"
    /\ holePunching' = holePunchDelete(calls[p].key)
    /\ conns' = pconnDecreaseCount(calls[p].pconn)
    /\ calls' = [calls EXCEPT ![p] =
                    returned([@ EXCEPT !.released = @ + 1],
                             lastChance(holePunching[calls[p].key],
                                        calls[p].punchErr)[1],
                             lastChance(holePunching[calls[p].key],
                                        calls[p].punchErr)[2])]
    /\ UNCHANGED <<clock, poolKept, closeCalled, closeRet>>

\* the caller cancels the context it passed to Dial
Cancel(p) ==
    /\ calls[p].pc \in {"hpSend", "hpSelect"}
    /\ ~calls[p].cancelled
    /\ calls' = [calls EXCEPT ![p].cancelled = TRUE]
    /\ UNCHANGED <<clock, conns, poolKept, holePunching, closeCalled, closeRet>>

\* The accept path of the listener: under holePunchingMx, a session from the
\* address and peer of a pending, unfulfilled entry goes into its channel.
Deliver(k) ==
    /\ k \in DOMAIN holePunching
    /\ ~holePunching[k].fulfilled
    /\ holePunching' = [holePunching EXCEPT
                            ![k] = [connCh |-> sessionFrom[k], fulfilled |-> TRUE]]
    /\ calls' = [p \in Callers |->
                    IF calls[p].key = k /\ calls[p].inserted /\ calls[p].pc # "done"
                    THEN [calls[p] EXCEPT !.delivered = sessionFrom[k]]
                    ELSE calls[p]]
    /\ UNCHANGED <<clock, conns, poolKept, closeCalled, closeRet>>

\* ------------------------------------------------------------ Close
\* reuse.Close of one pool: it succeeds or reports a failure
reuseClose(ok) == IF ok THEN "ok" ELSE "failed"

\* if err := c.reuseUDP6.Close(); err != nil { return err }
\* return c.reuseUDP4.Close()
connManagerCloseCalls(ok6, ok4) ==
    [n \in Networks |->
        IF n = "udp6" THEN reuseClose(ok6)
        ELSE IF ok6 THEN reuseClose(ok4) ELSE "no"]

connManagerCloseReturns(ok6, ok4) ==
    IF ~ok6 THEN "udp6" ELSE IF ~ok4 THEN "udp4" ELSE "nil"

\* transport.Close.  A pool that closes shuts its sockets, empties both
\* indices and waits for its collector to exit.
connManagerClose ==
    /\ closeRet = "none"
    /\ \E ok6, ok4 \in BOOLEAN :
          /\ closeCalled' = connManagerCloseCalls(ok6, ok4)
          /\ closeRet' = connManagerCloseReturns(ok6, ok4)
          /\ IF closeCalled'["udp4"] = "ok"
             THEN /\ conns' = [i \in DOMAIN conns |-> Close(i)]
                  /\ global' = EmptyMap
                  /\ unicast' = EmptyMap
                  /\ garbageCollectorRunning' = FALSE
                  /\ gcPc' = "none"
                  /\ gcLooping' = 0
                  /\ gcExiting' = 0
             ELSE UNCHANGED <<conns, global, unicast, garbageCollectorRunning,
                              gcPc, gcTasks>>
    /\ UNCHANGED <<clock, maxUnusedDuration, mutex, gcNow, callVars, held,
                   HolePunchTimeout, holePunching, calls>>

TransportNext ==
    \/ AdvanceClock
    \/ \E p \in Callers : DialFail(p)
    \/ \E p \in Callers : TransportDial(p)
    \/ \E p \in Callers : Handshake(p)
    \/ \E p \in Callers : Secure(p)
    \/ \E p \in Callers : SessionTerminates(p)
    \/ \E p \in Callers : Watcher(p)
    \/ \E p \in Callers : CallAgain(p)
    \/ \E p \in Callers, k \in HolePunchKeys : HolePunchStart(p, k)
    \/ \E p \in Callers : HolePunchLock(p)
    \/ \E p \in Callers : HolePunchSend(p)
    \/ \E p \in Callers : HolePunchReceive(p)
    \/ \E p \in Callers : HolePunchGot(p)
    \/ \E p \in Callers : HolePunchTimer(p)
    \/ \E p \in Callers : HolePunchCtxDone(p)
    \/ \E p \in Callers : HolePunchExit(p)
    \/ \E p \in Callers : Cancel(p)
    \/ \E k \in HolePunchKeys : Deliver(k)
    \/ connManagerClose

TransportSpec == TransportInit /\ [][TransportNext]_vars

\* the hole-punch coordinator and the accept path alone
HolePunchNext ==
    \/ AdvanceClock
    \/ \E p \in Callers : CallAgain(p)
    \/ \E p \in Callers, k \in HolePunchKeys : HolePunchStart(p, k)
    \/ \E p \in Callers : HolePunchLock(p)
    \/ \E p \in Callers : HolePunchSend(p)
    \/ \E p \in Callers : HolePunchReceive(p)
    \/ \E p \in Callers : HolePunchGot(p)
    \/ \E p \in Callers : HolePunchTimer(p)
    \/ \E p \in Callers : HolePunchCtxDone(p)
    \/ \E p \in Callers : HolePunchExit(p)
    \/ \E p \in Callers : Cancel(p)
    \/ \E k \in HolePunchKeys : Deliver(k)

HolePunchSpec == TransportInit /\ [][HolePunchNext]_vars

\* Time passes and the Go scheduler lets a runnable goroutine run.  select
\* picks among its ready cases at random, so a case that is ready again and
\* again is not passed over forever.
FairHolePunchSpec ==
    /\ HolePunchSpec
    /\ WF_vars(AdvanceClock)
    /\ \A p \in Callers :
          /\ WF_vars(HolePunchLock(p))
          /\ WF_vars(HolePunchSend(p))
          /\ WF_vars(HolePunchReceive(p))
          /\ WF_vars(HolePunchGot(p))
          /\ WF_vars(HolePunchTimer(p))
          /\ SF_vars(HolePunchCtxDone(p))
          /\ WF_vars(HolePunchExit(p))

\* the client dials alone
DialNext ==
    \/ \E p \in Callers : DialFail(p)
    \/ \E p \in Callers : TransportDial(p)
    \/ \E p \in Callers : Handshake(p)
    \/ \E p \in Callers : Secure(p)
    \/ \E p \in Callers : SessionTerminates(p)
    \/ \E p \in Callers : Watcher(p)
    \/ \E p \in Callers : CallAgain(p)

DialSpec == TransportInit /\ [][DialNext]_vars

\* a watcher whose session is done is scheduled
FairDialSpec == DialSpec /\ \A p \in Callers : WF_vars(Watcher(p))

\* ================================================================ claims
\* steps of the operations, for the action properties below
DialLockedStep == pc = "idle" /\ pc' = "dialSelected"
DialIncreaseStep == pc = "dialSelected" /\ pc' = "dialIncreased"
DialReturnStep == pc = "dialIncreased" /\ pc' = "idle"
ListenStep == pc = "idle" /\ pc' = "idle" /\ Len(conns') = Len(conns) + 1
GCRunStep == gcPc = "tick" /\ gcPc' # "tick"

\* some resolved source ip has a non-empty unicast entry
HasUnicastEntry(ips) ==
    \E k \in 1..Len(ips) : ips[k] \in DOMAIN unicast /\ unicast[ips[k]] # EmptyMap

\* the first such ip, in resolver order
FirstUnicastIP(ips) ==
    ips[CHOOSE k \in 1..Len(ips) :
            /\ ips[k] \in DOMAIN unicast /\ unicast[ips[k]] # EmptyMap
            /\ \A m \in 1..(k - 1) :
                  ~(ips[m] \in DOMAIN unicast /\ unicast[ips[m]] # EmptyMap)]

\* C1: while holders release at most once per acquisition, a socket whose
\* reference count is greater than 0 is open and still in the indices: the
\* collector has neither closed nor removed it.
C1_InUseNeverReaped ==
    \A i \in DOMAIN conns :
        conns[i].refCount > 0 => (~conns[i].closed /\ i \in Registered)

\* a pass has reaped one socket and left a socket in use alone
C1_Witness ==
    \E i, j \in DOMAIN conns :
        /\ conns[i].closed
        /\ conns[j].refCount > 0 /\ conns[j].unusedSince = Zero
        /\ j \in Registered

\* C2: Dial binds and registers a new wildcard socket (in global under its
\* port, count 1 at return) only when no resolved source ip has a unicast
\* entry and global is empty; when global is non-empty and no unicast entry
\* matches, Dial returns a socket of global, registers nothing, and its
\* IncreaseCount raises the count by exactly one.
C2_DialGlobalOrNew ==
    [][ /\ (DialLockedStep /\ Len(conns') > Len(conns)) =>
              /\ ~HasUnicastEntry(callIps')
              /\ DOMAIN global = {}
              /\ callConn' = Len(conns')
              /\ conns'[callConn'].ip = Unspecified
              /\ conns'[callConn'].port \in DOMAIN global'
              /\ global'[conns'[callConn'].port] = callConn'
              /\ unicast' = unicast
        /\ (DialLockedStep /\ DOMAIN global # {} /\ ~HasUnicastEntry(callIps')) =>
              /\ callConn' \in MapValues(global)
              /\ conns' = conns /\ global' = global /\ unicast' = unicast
        /\ DialIncreaseStep =>
              conns'[callConn].refCount = conns[callConn].refCount + 1
        /\ (DialReturnStep /\ before = 0) => conns[callConn].refCount = 1
      ]_vars

\* Listen on the wildcard address, then Dial: the same socket, count 2
C2_Witness ==
    /\ pc = "dialIncreased"
    /\ Len(conns) = 1
    /\ callConn \in MapValues(global)
    /\ conns[callConn].refCount = 2 /\ held[callConn] = 1

\* C3: when some resolved source ip has a non-empty unicast entry, Dial
\* returns a socket registered under unicast for the first such ip in
\* resolver order, whatever global holds, and raises its count by one; a
\* socket of global is returned only when no resolved ip has an entry.
C3_DialPrefersUnicast ==
    [][ /\ (DialLockedStep /\ HasUnicastEntry(callIps')) =>
              /\ callConn' \in MapValues(unicast[FirstUnicastIP(callIps')])
              /\ conns' = conns
        /\ (DialLockedStep /\ callConn' \in MapValues(global')) =>
              ~HasUnicastEntry(callIps')
        /\ (DialIncreaseStep /\ HasUnicastEntry(callIps)) =>
              conns'[callConn].refCount = conns[callConn].refCount + 1
      ]_vars

\* ip1 has no entry, ip2 has one, global is not empty: the socket of ip2
C3_Witness ==
    /\ pc = "dialIncreased"
    /\ callIps = <<"ip1", "ip2">>
    /\ "ip1" \notin DOMAIN unicast
    /\ "ip2" \in DOMAIN unicast
    /\ callConn \in MapValues(unicast["ip2"])
    /\ DOMAIN global # {}

\* C4: a successful Listen returns a new socket with count exactly 1 and
\* adds exactly one index entry for it, global[port] when the bound ip is
\* unspecified and unicast[ip][port] otherwise; no other entry is added,
\* removed or changed.
C4_ListenRegistersOnce ==
    [][ ListenStep =>
          LET id == Len(conns')
              ip == conns'[id].ip
              port == conns'[id].port
              old == IF ip \in DOMAIN unicast THEN unicast[ip] ELSE EmptyMap
          IN  /\ conns'[id].refCount = 1
              /\ ~conns'[id].closed
              /\ \A i \in DOMAIN conns : conns'[i] = conns[i]
              /\ id \notin Registered
              /\ IF ip = Unspecified
                 THEN /\ unicast' = unicast
                      /\ port \notin DOMAIN global
                      /\ DOMAIN global' = DOMAIN global \cup {port}
                      /\ global'[port] = id
                      /\ \A k \in DOMAIN global : global'[k] = global[k]
                 ELSE /\ global' = global
                      /\ DOMAIN unicast' = DOMAIN unicast \cup {ip}
                      /\ \A u \in DOMAIN unicast \ {ip} : unicast'[u] = unicast[u]
                      /\ port \notin DOMAIN old
                      /\ DOMAIN unicast'[ip] = DOMAIN old \cup {port}
                      /\ unicast'[ip][port] = id
                      /\ \A k \in DOMAIN old : unicast'[ip][k] = old[k]
      ]_vars

\* a Listen on a unicast address after a Listen on the wildcard address
C4_Witness ==
    /\ DOMAIN global # {}
    /\ \E u \in DOMAIN unicast : \E k \in DOMAIN unicast[u] :
          /\ unicast[u][k] = Len(conns)
          /\ conns[unicast[u][k]].refCount = 1
          /\ held[unicast[u][k]] = 1

\* C5 as stated: a registered socket with count 0 and
\* now - idle_since >= max_unused_duration at a tick is closed and removed
\* by that tick's pass.
C5_ReapedWithinOneCycle_AsStated ==
    [][ GCRunStep =>
          \A i \in Registered :
              (/\ conns[i].refCount = 0
               /\ conns[i].unusedSince # Zero
               /\ gcNow - conns[i].unusedSince >= maxUnusedDuration)
              => (i \notin Registered' /\ conns'[i].closed)
      ]_vars

\* C5 (amended): a registered socket whose count is 0 when the pass of a
\* tick examines it, and whose idle time at that tick is strictly greater
\* than max_unused_duration, is closed and removed by that pass.
C5_ReapedWithinOneCycle ==
    [][ GCRunStep =>
          \A i \in Registered :
              (/\ conns[i].refCount = 0
               /\ conns[i].unusedSince # Zero
               /\ gcNow - conns[i].unusedSince > maxUnusedDuration)
              => (i \notin Registered' /\ conns'[i].closed)
      ]_vars

\* a socket has been reaped while the collector goes on for another one
C5_Witness ==
    /\ gcPc = "wait"
    /\ \E i \in DOMAIN conns : conns[i].closed /\ i \notin Registered
    /\ \E j \in Registered : conns[j].refCount = 0

\* C6 as stated: should_reap(now) is true iff the idle timestamp is set and
\* now >= idle_since + max_unused_duration, the boundary instant included.
C6_ShouldReap_AsStated ==
    [][ GCRunStep =>
          \A i \in Registered :
              (i \notin Registered') <=>
                  (/\ conns[i].unusedSince # Zero
                   /\ gcNow >= conns[i].unusedSince + maxUnusedDuration)
      ]_vars

\* C6 (amended): should_reap(now) is true iff the idle timestamp is set and
\* now > idle_since + max_unused_duration, with max_unused_duration as it
\* is at the check; a socket the collector removes has count 0 and more
\* than max_unused_duration has passed since its count dropped to 0.
C6_ShouldReap ==
    [][ GCRunStep =>
          \A i \in Registered :
              /\ (i \notin Registered') <=>
                     (/\ conns[i].unusedSince # Zero
                      /\ gcNow > conns[i].unusedSince + maxUnusedDuration)
              /\ (i \notin Registered') =>
                     (/\ conns[i].refCount = 0
                      /\ clock - conns[i].unusedSince > maxUnusedDuration)
      ]_vars

\* the pass is about to examine a socket at the boundary instant
C6_Witness ==
    /\ gcPc = "tick"
    /\ ~mutex
    /\ \E i \in Registered :
          /\ conns[i].unusedSince # Zero
          /\ gcNow = conns[i].unusedSince + maxUnusedDuration

\* C7: whenever the pool mutex is free, the collector is running iff some
\* socket is registered in global or unicast.
C7_RunningIffRegistered ==
    ~mutex =>
        /\ garbageCollectorRunning <=> (Registered # {})
        /\ garbageCollectorRunning <=> (gcPc # "none")

\* two sockets, one released and reaped, the other still held: running
C7_Witness ==
    /\ ~mutex
    /\ garbageCollectorRunning
    /\ Len(conns) = 2
    /\ \E i, j \in DOMAIN conns :
          /\ conns[i].closed /\ i \notin Registered
          /\ j \in Registered /\ held[j] = 1

\* every reference handed out has been released and no call is in progress
C8_Quiet == pc = "idle" /\ \A i \in ConnIds : held[i] = 0

\* the largest value maxUnusedDuration takes
MaxUnused == CHOOSE d \in UnusedDurations : \A e \in UnusedDurations : e <= d

\* the clock of the model can still pass every registered socket's deadline
C8_WithinHorizon ==
    \A i \in Registered : conns[i].unusedSince + MaxUnused < MaxTime

C8_Drained ==
    /\ DOMAIN global = {}
    /\ DOMAIN unicast = {}
    /\ ~garbageCollectorRunning
    /\ gcPc = "none"
    /\ gcLooping = 0
    /\ gcExiting = 0

\* C8: once every Listen and Dial has been paired with one DecreaseCount,
\* and unless a further Listen or Dial is issued, the pool reaches a state
\* where global and unicast are empty and the collector has exited.
C8_EventuallyDrained ==
    (C8_Quiet /\ C8_WithinHorizon) ~> (C8_Drained \/ ~C8_Quiet)

\* every socket bound has been released and reaped, the collector is gone
C8_Witness ==
    /\ C8_Quiet /\ C8_Drained
    /\ Len(conns) = MaxConns
    /\ \A i \in DOMAIN conns : conns[i].closed

\* C9 as stated: at the return of every successful Listen or Dial the
\* socket's count is >= 1 and strictly greater than before the call.
C9_CountRaised_AsStated ==
    [][ /\ DialReturnStep =>
              /\ conns[callConn].refCount >= 1
              /\ conns[callConn].refCount > before
        /\ ListenStep => conns'[Len(conns')].refCount >= 1
      ]_vars

\* C9 (amended): at the return of every successful Listen or Dial the
\* socket's count is >= 1; it is strictly greater than before the call
\* whenever no other holder's DecreaseCount ran on that socket during the
\* call.
C9_CountRaised ==
    [][ /\ DialReturnStep =>
              /\ conns[callConn].refCount >= 1
              /\ ~decd => conns[callConn].refCount > before
        /\ ListenStep => conns'[Len(conns')].refCount >= 1
      ]_vars

\* a holder released the socket between Dial's IncreaseCount and its return
C9_Witness ==
    /\ pc = "dialIncreased"
    /\ decd
    /\ conns[callConn].refCount = before
    /\ conns[callConn].refCount >= 1

\* C10: from the moment Dial has selected a socket until it returns, Dial
\* holds the pool mutex and the socket is registered and not closed; at
\* the return its count is >= 1 and its idle timestamp is cleared.
C10_DialNeverReturnsClosed ==
    pc # "idle" =>
        /\ mutex
        /\ callConn \in Registered
        /\ ~conns[callConn].closed
        /\ pc = "dialIncreased" =>
              /\ conns[callConn].refCount >= 1
              /\ conns[callConn].unusedSince = Zero

\* Dial has selected an idle socket the pending tick would reap
C10_Witness ==
    /\ pc = "dialSelected"
    /\ gcPc = "tick"
    /\ ShouldGarbageCollect(conns[callConn], gcNow)

\* ------------------------------------------------------------ hole punch
\* caller p has its entry in the table and has not returned
Punching(p) == calls[p].pc \in {"hpSend", "hpSelect", "hpGot", "hpExit"}

\* the step in which caller p leaves pc value l
Leaves(p, l) == calls[p].pc = l /\ calls'[p].pc # l

\* C11: at most one hole punch is in state Punching per key; a holePunch
\* that finds an entry for its key in the table fails with "already
\* punching hole", has sent no probe, and leaves the table, the entry and
\* its channel as they were.
C11_OnePunchPerKey ==
    /\ [](\A p, q \in Callers :
            (Punching(p) /\ Punching(q) /\ calls[p].key = calls[q].key) => p = q)
    /\ [][\A p \in Callers :
            (Leaves(p, "hpLock") /\ calls[p].key \in DOMAIN holePunching) =>
                /\ calls'[p].pc = "done"
                /\ calls'[p].err = "already"
                /\ calls'[p].ret = NoSess
                /\ ~calls'[p].sent
                /\ holePunching' = holePunching
         ]_vars

\* a second call for a key was turned away while the first, with a session
\* already in its channel, is still punching
C11_Witness ==
    \E p, q \in Callers :
        /\ calls[p].pc = "done" /\ calls[p].err = "already"
        /\ Punching(q) /\ calls[q].key = calls[p].key
        /\ holePunching[calls[q].key].connCh # NoSess

\* C12: the entry a holePunch inserted is in the table from the insertion
\* until the call completes and is absent when the call has returned,
\* whatever the outcome: the keys of the table are exactly the keys of the
\* calls that are punching, so the table is empty once all have returned.
C12_EntryLifetime ==
    /\ \A p \in Callers : Punching(p) => calls[p].key \in DOMAIN holePunching
    /\ \A k \in DOMAIN holePunching :
          \E p \in Callers : Punching(p) /\ calls[p].key = k

\* two hole punches have returned, one timed out or cancelled, one with a
\* session, and the table is empty
C12_Witness ==
    /\ holePunching = EmptyMap
    /\ \E p, q \in Callers :
          /\ calls[p].pc = "done" /\ calls[p].inserted
          /\ calls[p].err = "ErrHolePunching"
          /\ calls[q].pc = "done" /\ calls[q].inserted
          /\ calls[q].ret \in Sessions

\* C13: a session the accept path delivered into the channel of a pending
\* entry is in the channel or in the hands of the call until the call
\* returns, and the call returns that session with no error, also when the
\* timeout, a cancellation or a failed send had already ended the loop.
C13_DeliveredIsReturned ==
    \A p \in Callers :
        (calls[p].inserted /\ calls[p].delivered # NoSess) =>
            /\ Punching(p) =>
                  \/ holePunching[calls[p].key].connCh = calls[p].delivered
                  \/ calls[p].ret = calls[p].delivered
            /\ calls[p].pc = "done" =>
                  /\ calls[p].ret = calls[p].delivered
                  /\ calls[p].err = "nil"

\* the context was done first, the session came before the last read
C13_Witness ==
    \E p \in Callers :
        /\ calls[p].pc = "done"
        /\ calls[p].punchErr = "ErrHolePunching"
        /\ calls[p].delivered # NoSess
        /\ calls[p].ret = calls[p].delivered

\* C14 as stated: whenever rand.Read or WriteTo fails, holePunch returns
\* that error and no connection.
C14_SendError_AsStated ==
    \A p \in Callers :
        (calls[p].pc = "done" /\ calls[p].punchErr = "send") =>
            (calls[p].err = "send" /\ calls[p].ret = NoSess)

\* C14 (amended): whenever rand.Read or WriteTo fails, the loop ends at
\* once; holePunch returns that error and no connection unless a session is
\* in the channel at the last read, and then it returns that session.
C14_SendError ==
    /\ [](\A p \in Callers :
            (calls[p].pc = "done" /\ calls[p].punchErr = "send") =>
                IF calls[p].delivered = NoSess
                THEN calls[p].err = "send" /\ calls[p].ret = NoSess
                ELSE calls[p].err = "nil" /\ calls[p].ret = calls[p].delivered)
    /\ [][\A p \in Callers :
            (calls[p].punchErr # "send" /\ calls'[p].punchErr = "send") =>
                (calls[p].pc = "hpSend" /\ calls'[p].pc = "hpExit")
         ]_vars

\* the second probe could not be sent and nothing had been delivered
C14_Witness ==
    \E p \in Callers :
        /\ calls[p].pc = "done" /\ calls[p].punchErr = "send"
        /\ calls[p].sent
        /\ calls[p].err = "send" /\ calls[p].ret = NoSess

\* C15: every hole punch returns.  One to which no session is delivered
\* and whose sends all succeed leaves the loop only when its context is
\* done (the overall timeout has passed or the caller cancelled) and then
\* returns ErrHolePunching and no connection.
C15_HolePunchTerminates ==
    /\ \A p \in Callers :
          (calls[p].pc \in {"hpLock", "hpSend", "hpSelect", "hpGot", "hpExit"})
              ~> (calls[p].pc = "done")
    /\ [](\A p \in Callers :
            (/\ calls[p].pc = "done" /\ calls[p].inserted
             /\ calls[p].delivered = NoSess /\ calls[p].punchErr # "send") =>
                (calls[p].err = "ErrHolePunching" /\ calls[p].ret = NoSess))
    /\ [][\A p \in Callers :
            (calls[p].punchErr # "ErrHolePunching"
             /\ calls'[p].punchErr = "ErrHolePunching") =>
                (calls[p].cancelled \/ clock >= calls[p].deadline)
         ]_vars

\* a hole punch nobody cancelled ended by its timeout after sending probes
C15_Witness ==
    \E p \in Callers :
        /\ calls[p].pc = "hpExit"
        /\ calls[p].punchErr = "ErrHolePunching"
        /\ ~calls[p].cancelled
        /\ clock >= calls[p].deadline
        /\ calls[p].sent
        /\ calls[p].delivered = NoSess

\* ------------------------------------------------------------ counts
\* the callers whose call or watcher still owes socket c a DecreaseCount
Owing(c) ==
    {p \in Callers : calls[p].pconn = c /\ calls[p].acquired > calls[p].released}

\* the call of p and its watcher have finished
Finished(p) == calls[p].pc = "done" /\ calls[p].watcher # "waiting"

\* C16: every count the transport takes through connManager.Dial is given
\* back by exactly one DecreaseCount on every path of Dial and holePunch: a
\* call never releases more than it took, a socket's count is what the
\* listener holds plus one for each call that still owes its release, so it
\* is never negative; a call that has returned owes nothing, except a
\* successful or gated Dial, whose one watcher releases when the session ends.
C16_CountsPaired ==
    /\ \A p \in Callers :
          /\ calls[p].released <= calls[p].acquired
          /\ calls[p].acquired <= 1
          /\ Finished(p) => calls[p].released = calls[p].acquired
          /\ calls[p].watcher = "waiting" =>
                (calls[p].acquired = 1 /\ calls[p].released = 0)
          /\ (calls[p].pc = "done" /\ calls[p].ret = "conn") =>
                calls[p].watcher \in {"waiting", "exited"}
    /\ \A c \in DOMAIN conns :
          /\ conns[c].refCount = held[c] + Cardinality(Owing(c))
          /\ conns[c].refCount >= 0

\* a rejected duplicate hole punch and a dial whose session has ended have
\* both given their counts back: the socket is left to the listener
C16_Witness ==
    /\ \E p, q \in Callers :
          /\ calls[p].pc = "done" /\ calls[p].err = "already"
          /\ calls[p].released = 1
          /\ calls[q].pc = "done" /\ calls[q].ret = "conn"
          /\ calls[q].watcher = "exited" /\ calls[q].released = 1
    /\ conns[1].refCount = 1

\* C17 as stated: when the handshake succeeded and the remote public key is
\* absent at the non-blocking read, Dial closes the session, releases the
\* socket count and returns an error and no connection.
C17_MissingKeyClosesSession ==
    \A p \in Callers :
        (calls[p].pc = "done" /\ calls[p].err = "nokey") =>
            /\ calls[p].closeCode # NoCode
            /\ calls[p].sess = "closed"
            /\ calls[p].released = 1
            /\ calls[p].ret = NoSess

\* gating rejected the connection of caller p and Dial has returned
Gated(p) == calls[p].pc = "done" /\ calls[p].err = "gated"

C19_CloseBothPools ==
    closeRet # "none" =>
        /\ \A n \in Networks : closeCalled[n] # "no"
        /\ closeRet = IF closeCalled["udp6"] = "failed" THEN "udp6"
                      ELSE IF closeCalled["udp4"] = "failed" THEN "udp4"
                      ELSE "nil"

\* ------------------------------------------------------------ timestamps
\* C20: while callers release at most what they acquired, whenever the pool
\* mutex is free every registered socket has its idle timestamp set iff its
\* count is 0, and its count is >= 0; a step that raises a count clears
\* the timestamp, a step that lowers one sets it to the current time
\* exactly when the count reaches 0 and leaves it alone otherwise.
C20_StampIffUnused ==
    /\ [](/\ ~mutex =>
               \A i \in Registered :
                   (conns[i].unusedSince # Zero) <=> (conns[i].refCount = 0)
          /\ \A i \in DOMAIN conns : conns[i].refCount >= 0)
    /\ [][\A i \in DOMAIN conns :
            /\ conns'[i].refCount = conns[i].refCount + 1 =>
                  conns'[i].unusedSince = Zero
            /\ conns'[i].refCount = conns[i].refCount - 1 =>
                  conns'[i].unusedSince =
                      IF conns'[i].refCount = 0 THEN clock
                      ELSE conns[i].unusedSince
         ]_vars

\* one registered socket is idle and stamped, another was idle and has been
\* taken again by a Dial
C20_Witness ==
    /\ ~mutex
    /\ \E i, j \in Registered :
          /\ conns[i].refCount = 0 /\ conns[i].unusedSince # Zero
          /\ conns[j].refCount = 1 /\ conns[j].unusedSince = Zero
          /\ held[j] = 1 /\ clock > 1

\* ------------------------------------------------------------ indices
\* the places of the two indices that refer to socket i
KeysOf(i) ==
    {<<Unspecified, k>> : k \in {x \in DOMAIN global : global[x] = i}} \cup
    UNION {{<<u, k>> : k \in {x \in DOMAIN unicast[u] : unicast[u][x] = i}} :
              u \in DOMAIN unicast}

\* C21: with a kernel that binds no two open sockets to the same local ip
\* and port, every registered socket is open and sits under exactly one
\* key of exactly one index, the key of its own address; unicast holds no
\* empty inner mapping; an entry, once inserted, is never replaced by a
\* Listen or a Dial: it goes only when a pass of the collector deletes it.
C21_IndicesWellFormed ==
    /\ [](/\ \A i \in Registered :
                /\ ~conns[i].closed
                /\ KeysOf(i) = {<<conns[i].ip, conns[i].port>>}
          /\ \A u \in DOMAIN unicast : DOMAIN unicast[u] # {})
    /\ [][/\ \A k \in DOMAIN global :
                \/ k \in DOMAIN global' /\ global'[k] = global[k]
                \/ k \notin DOMAIN global' /\ GCRunStep
          /\ \A u \in DOMAIN unicast : \A k \in DOMAIN unicast[u] :
                \/ /\ u \in DOMAIN unicast' /\ k \in DOMAIN unicast'[u]
                   /\ unicast'[u][k] = unicast[u][k]
                \/ /\ GCRunStep
                   /\ u \in DOMAIN unicast' => k \notin DOMAIN unicast'[u]
         ]_vars

\* a pass has reaped the only socket of one ip and kept that of another:
\* the emptied inner mapping is gone, the collector goes on
C21_Witness ==
    /\ gcPc = "wait"
    /\ DOMAIN global = {}
    /\ Cardinality(DOMAIN unicast) = 1
    /\ \E i, j \in DOMAIN conns :
          /\ conns[i].closed /\ i \notin Registered
          /\ j \in Registered /\ conns[j].ip # Unspecified
          /\ KeysOf(j) = {<<conns[j].ip, conns[j].port>>}

\* ------------------------------------------------------------ one collector
\* C22: at most one collector is inside its loop under every interleaving
\* of Listen, Dial and ticks, and garbageCollectorRunning says whether one
\* is.  The flag is set only by a Listen or Dial that holds the pool mutex
\* and finds it false, which starts exactly one collector; it is cleared
\* only by the collector, under the mutex, in the pass that leaves both
\* indices empty, and that goroutine then leaves the loop.  Only a pass of
\* the collector inside the loop closes or removes a socket.
C22_OneCollector ==
    /\ [](/\ gcLooping \in {0, 1}
          /\ garbageCollectorRunning <=> (gcLooping = 1)
          /\ (gcPc # "none") <=> (gcLooping = 1))
    /\ [][/\ (gcLooping' > gcLooping \/ (~garbageCollectorRunning
                                          /\ garbageCollectorRunning')) =>
                /\ ~garbageCollectorRunning /\ garbageCollectorRunning'
                /\ gcLooping' = gcLooping + 1
                /\ \/ ListenStep /\ ~mutex
                   \/ DialReturnStep /\ mutex
          /\ (gcLooping' < gcLooping \/ (garbageCollectorRunning
                                          /\ ~garbageCollectorRunning')) =>
                /\ GCRunStep /\ ~mutex
                /\ garbageCollectorRunning /\ ~garbageCollectorRunning'
                /\ DOMAIN global' = {} /\ DOMAIN unicast' = {}
                /\ gcLooping' = gcLooping - 1
                /\ gcExiting' = gcExiting + 1
          /\ (\E i \in DOMAIN conns :
                 \/ ~conns[i].closed /\ conns'[i].closed
                 \/ i \in Registered /\ i \notin Registered') =>
                (GCRunStep /\ gcLooping = 1 /\ ~mutex)
          /\ gcExiting' < gcExiting =>
                (conns' = conns /\ global' = global /\ unicast' = unicast
                 /\ garbageCollectorRunning' = garbageCollectorRunning)
         ]_vars

\* a Listen has started a new collector while the one that cleared the
\* flag has not yet returned
C22_Witness ==
    /\ gcExiting >= 1
    /\ gcLooping = 1
    /\ garbageCollectorRunning
    /\ Registered # {}

====
